---- MODULE Spec2Model ----
(***************************************************************************)
(* Model of the command-line option parser of src/option.cc:               *)
(* OptionList::Sort, OptionList::Find, MakePrintable and ParseOptions.     *)
(*                                                                         *)
(* A char is its integer value; a C string is the sequence of its chars    *)
(* without the terminating NUL, so reading one position past the end of    *)
(* the sequence yields NUL.  An argument vector is a sequence of strings;  *)
(* the null entry that terminates it sits at offset Len(args).  Pointers   *)
(* into the argument vector are 0-based offsets (arg_ptr - args).  A       *)
(* pointer to an Option is its 1-based position in options_, 0 is the null *)
(* pointer.  An Option is [name, handler]; the handler is represented by   *)
(* the boolean its dispatcher on_option(handler) returns.                  *)
(***************************************************************************)
EXTENDS Integers, Sequences, FiniteSets, TLC

VARIABLES options_, sorted_, args, ret

vars == <<options_, sorted_, args, ret>>

----------------------------------------------------------------------------
(* Bounds of the model *)

MaxOptions == 3
MaxParseOptions == 2
\* size of the argument block: the characters of all arguments, each with
\* its terminating NUL
MaxArgBytes == 7

(* Characters *)

NUL == 0
Dash == 45
Quote == 39
Backslash == 92
LowerX == 120
Zero == 48

\* flag characters an Option may be registered under: NUL, 'a', 'b', 'c'
Names == {0, 97, 98, 99}
\* flag characters registered in the parsing specification: NUL, 'a', 'b'
ParseNames == {0, 97, 98}
\* characters of the command-line arguments: '-' and 'a'; with the NUL that
\* ends a string the flags of the arguments are NUL, '-' and 'a'
ArgChars == {45, 97}
\* every value of a (signed, 8-bit) char
Chars == -128 .. 127

\* the argument vectors that fit a block of n bytes, built a byte at a time:
\* a byte either starts a new (empty) argument or extends the last one
RECURSIVE ArgVectorsUpTo(_)
ArgVectorsUpTo(n) ==
  IF n = 0 THEN {<<>>}
  ELSE LET smaller == ArgVectorsUpTo(n - 1)
       IN smaller
          \cup {Append(v, <<>>) : v \in smaller}
          \cup {[v EXCEPT ![Len(v)] = Append(@, c)] :
                  v \in smaller \ {<<>>}, c \in ArgChars}

ArgVectors == ArgVectorsUpTo(MaxArgBytes)

\* s[i] of a C string, i counted from 0; the terminator is NUL
CharAt(s, i) == IF i < Len(s) THEN s[i + 1] ELSE NUL

----------------------------------------------------------------------------
(* OptionLess, OptionList::Sort, OptionList::Find *)

\* all three overloads compare the name characters
OptionLess(lhs, rhs) == lhs < rhs

\* the results std::sort may leave: the permutations of opts in which no
\* element is less than an earlier one (the order of equal names is free)
SortedPermutations(opts) ==
  LET n == Len(opts)
      perms == {[i \in 1..n |-> opts[p[i]]] : p \in Permutations(1..n)}
  IN {t \in perms :
        \A i, j \in 1..n : i < j => ~OptionLess(t[j].name, t[i].name)}

Sort_NoFlag(opts, flag) ==
  {[options_ |-> t, sorted_ |-> flag] : t \in SortedPermutations(opts)}

Sort_NoSort(opts, flag) == {[options_ |-> opts, sorted_ |-> TRUE]}

\* the states OptionList::Sort may leave the list in
Sort(opts, flag) ==
  IF flag THEN {[options_ |-> opts, sorted_ |-> flag]}
  ELSE {[options_ |-> t, sorted_ |-> TRUE] : t \in SortedPermutations(opts)}

\* std::lower_bound over opts[first+1 .. first+len], 0-based result
RECURSIVE LowerBound(_, _, _, _)
LowerBound(opts, name, first, len) ==
  IF len <= 0 THEN first
  ELSE LET half == len \div 2
           middle == first + half
       IN IF OptionLess(opts[middle + 1].name, name)
          THEN LowerBound(opts, name, middle + 1, len - half - 1)
          ELSE LowerBound(opts, name, first, half)

Find_NoEq(opts, name) ==
  LET it == LowerBound(opts, name, 0, Len(opts))
  IN IF it # Len(opts) THEN it + 1 ELSE 0

\* OptionList::Find: position of the option found, 0 for the null pointer
Find(opts, name) ==
  LET it == LowerBound(opts, name, 0, Len(opts))
  IN IF it # Len(opts) /\ opts[it + 1].name = name THEN it + 1 ELSE 0

----------------------------------------------------------------------------
(* MakePrintable *)

\* std::isprint in the "C" locale; the argument must be representable as
\* unsigned char or equal EOF (-1), any other value is undefined behaviour
isprint(c) ==
  IF c \in 32..126 THEN {TRUE}
  ELSE IF c >= -1 THEN {FALSE}
  ELSE BOOLEAN

RECURSIVE Decimal(_)
Decimal(n) ==
  IF n < 10 THEN <<Zero + n>>
  ELSE Decimal(n \div 10) \o <<Zero + (n % 10)>>

\* the replacement field {:02d}: decimal, zero-padded to width 2, sign included
FormatD02(c) ==
  IF c < 0 THEN <<Dash>> \o Decimal(-c)
  ELSE IF c < 10 THEN <<Zero>> \o Decimal(c)
  ELSE Decimal(c)

\* MakePrintable(c), printable being what std::isprint(c) returned
MakePrintable(c, printable) ==
  IF printable THEN <<c>> ELSE <<Backslash, LowerX>> \o FormatD02(c)

\* "invalid option '-"
InvalidOptionPrefix ==
  <<105, 110, 118, 97, 108, 105, 100, 32, 111, 112, 116, 105, 111, 110, 32,
    Quote, Dash>>

\* fmt::format("invalid option '-{}'", text)
InvalidOption_NoDash(text) ==
  SubSeq(InvalidOptionPrefix, 1, Len(InvalidOptionPrefix) - 1) \o text \o <<Quote>>

InvalidOption(text) == InvalidOptionPrefix \o text \o <<Quote>>

----------------------------------------------------------------------------
(* ParseOptions *)

IsOption_NonEmpty(arg) == CharAt(arg, 0) # NUL

\* the negation of the test *arg != '-'
IsOption(arg) == CharAt(arg, 0) = Dash

Name_Last(arg) == CharAt(arg, Len(arg) - 1)

\* char name = arg[1]
Name(arg) == CharAt(arg, 1)

\* The for loop of ParseOptions from offset arg_ptr on.  calls lists the
\* offsets of the arguments whose handler was invoked, looked the names
\* passed to Find, examined the offsets of the arguments read, in order.
RECURSIVE Scan_Inverted(_, _, _, _, _, _)
Scan_Inverted(argv, opts, arg_ptr, calls, looked, examined) ==
  IF arg_ptr >= Len(argv)
  THEN [threw |-> FALSE, index |-> arg_ptr, name |-> NUL, stop |-> "null",
        calls |-> calls, looked |-> looked, examined |-> examined]
  ELSE
    LET arg == argv[arg_ptr + 1]
        seen == Append(examined, arg_ptr)
    IN IF ~IsOption(arg)
       THEN [threw |-> FALSE, index |-> arg_ptr, name |-> NUL, stop |-> "arg",
             calls |-> calls, looked |-> looked, examined |-> seen]
       ELSE
         LET name == Name(arg)
             opt == Find(opts, name)
             asked == Append(looked, name)
         IN IF opt = 0
            THEN [threw |-> TRUE, index |-> arg_ptr, name |-> name,
                  stop |-> "throw",
                  calls |-> calls, looked |-> asked, examined |-> seen]
            ELSE IF opts[opt].handler
            THEN [threw |-> FALSE, index |-> arg_ptr, name |-> NUL,
                  stop |-> "handler", calls |-> Append(calls, arg_ptr),
                  looked |-> asked, examined |-> seen]
            ELSE Scan_Inverted(argv, opts, arg_ptr + 1, Append(calls, arg_ptr),
                               asked, seen)

RECURSIVE Scan(_, _, _, _, _, _)
Scan(argv, opts, arg_ptr, calls, looked, examined) ==
  IF arg_ptr >= Len(argv)
  THEN [threw |-> FALSE, index |-> arg_ptr, name |-> NUL, stop |-> "null",
        calls |-> calls, looked |-> looked, examined |-> examined]
  ELSE
    LET arg == argv[arg_ptr + 1]
        seen == Append(examined, arg_ptr)
    IN IF ~IsOption(arg)
       THEN [threw |-> FALSE, index |-> arg_ptr, name |-> NUL, stop |-> "arg",
             calls |-> calls, looked |-> looked, examined |-> seen]
       ELSE
         LET name == Name(arg)
             opt == Find(opts, name)
             asked == Append(looked, name)
         IN IF opt = 0
            THEN [threw |-> TRUE, index |-> arg_ptr, name |-> name,
                  stop |-> "throw",
                  calls |-> calls, looked |-> asked, examined |-> seen]
            ELSE IF ~opts[opt].handler
            THEN [threw |-> FALSE, index |-> arg_ptr, name |-> NUL,
                  stop |-> "handler", calls |-> Append(calls, arg_ptr),
                  looked |-> asked, examined |-> seen]
            ELSE Scan(argv, opts, arg_ptr + 1, Append(calls, arg_ptr),
                      asked, seen)

ParseOptions_SkipFirst(argv, opts) ==
  Scan(argv, opts, IF Len(argv) > 0 THEN 1 ELSE 0, <<>>, <<>>, <<>>)

\* ParseOptions after options.Sort(): char **arg_ptr = args; for (...) ...
ParseOptions(argv, opts) == Scan(argv, opts, 0, <<>>, <<>>, <<>>)

\* what a call ParseOptions(argv, options) may do to a list in state
\* (opts, flag): the list as Sort leaves it, and the outcome of the scan
ParseOutcomes(argv, opts, flag) ==
  UNION {
    LET r == ParseOptions(argv, s.options_)
    IN {[list |-> s,
         ret |-> [op |-> "ParseOptions", threw |-> r.threw,
                  index |-> IF r.threw THEN -1 ELSE r.index,
                  what |-> IF r.threw
                           THEN InvalidOption(MakePrintable(r.name, p))
                           ELSE <<>>,
                  stop |-> r.stop, calls |-> r.calls, looked |-> r.looked,
                  examined |-> r.examined]]
        : p \in IF r.threw THEN isprint(r.name) ELSE {FALSE}}
    : s \in Sort(opts, flag)}

----------------------------------------------------------------------------
(* Operations *)

\* a freshly constructed OptionList; no operation has returned yet
Init ==
  /\ options_ = <<>>
  /\ sorted_ = FALSE
  /\ args = <<>>
  /\ ret = [op |-> "Init"]

\* as Init, with the argument vector the process was started with
InitArgs ==
  /\ options_ = <<>>
  /\ sorted_ = FALSE
  /\ args \in ArgVectors
  /\ ret = [op |-> "Init"]

\* insertion of an option into the list; dirtied records that the list had
\* been sorted before the insertions made since
Add(name, handler) ==
  /\ options_' = Append(options_, [name |-> name, handler |-> handler])
  /\ sorted_' = FALSE
  /\ ret' = [op |-> "Add", dirtied |-> sorted_ \/ (ret.op = "Add" /\ ret.dirtied)]
  /\ UNCHANGED args

\* options.Sort(); before and was_sorted are the list and the flag the call
\* found, repeated tells that the previous operation was a Sort as well,
\* redone that the list was sorted once and has had insertions since
SortCall ==
  \E s \in Sort(options_, sorted_) :
    /\ options_' = s.options_
    /\ sorted_' = s.sorted_
    /\ ret' = [op |-> "Sort", before |-> options_, was_sorted |-> sorted_,
               repeated |-> ret.op = "Sort",
               redone |-> ret.op = "Add" /\ ret.dirtied]
    /\ UNCHANGED args

\* whether the list has been sorted by a call that returned since the last
\* insertion
AfterSort ==
  \/ ret.op \in {"Sort", "ParseOptions"}
  \/ ret.op = "Find" /\ ret.after_sort

\* options.Find(name)
FindCall(name) ==
  /\ ret' = [op |-> "Find", name |-> name, opt |-> Find(options_, name),
             after_sort |-> AfterSort]
  /\ UNCHANGED <<options_, sorted_, args>>

\* ParseOptions(args, options)
ParseOptionsCall ==
  \E o \in ParseOutcomes(args, options_, sorted_) :
    /\ options_' = o.list.options_
    /\ sorted_' = o.list.sorted_
    /\ ret' = o.ret
    /\ UNCHANGED args

\* MakePrintable(c)
MakePrintableCall(c) ==
  /\ \E p \in isprint(c) :
       ret' = [op |-> "MakePrintable", c |-> c, text |-> MakePrintable(c, p)]
  /\ UNCHANGED <<options_, sorted_, args>>

\* the life of an option list: insertions, sorts, lookups and parses
Next ==
  \/ \E name \in Names, handler \in BOOLEAN :
       Len(options_) < MaxOptions /\ Add(name, handler)
  \/ SortCall
  \/ \E name \in Names : FindCall(name)
  \/ ParseOptionsCall

Spec == Init /\ [][Next]_vars

\* a caller registers its options and parses its argument vector
NextParse ==
  \/ \E name \in ParseNames, handler \in BOOLEAN :
       Len(options_) < MaxParseOptions /\ Add(name, handler)
  \/ ParseOptionsCall

SpecParse == InitArgs /\ [][NextParse]_vars

\* the error formatting helper applied to every char
NextPrintable == \E c \in Chars : MakePrintableCall(c)

SpecPrintable == Init /\ [][NextPrintable]_vars

----------------------------------------------------------------------------
(* Vocabulary of the properties *)

Parsed == ret.op = "ParseOptions"

\* the sequence 0, 1, ..., k-1
Upto(k) == [i \in 1..k |-> i - 1]

Printable(c) == c \in 32..126

Registered(c) == \E j \in 1..Len(options_) : options_[j].name = c

\* c is registered and every handler registered under c returns b
Returns(c, b) ==
  /\ Registered(c)
  /\ \A j \in 1..Len(options_) : options_[j].name = c => options_[j].handler = b

BeginsWithDash(i) == Len(args[i + 1]) >= 1 /\ args[i + 1][1] = 45

\* the second character of the argument at offset i
Flag(i) == IF Len(args[i + 1]) >= 2 THEN args[i + 1][2] ELSE 0

\* the argument at offset i is a registered flag whose handler returns true
Continues(i) == BeginsWithDash(i) /\ Returns(Flag(i), TRUE)

Offsets == 0 .. Len(args) - 1

\* the scan reaches the argument at offset i
Reaches(i) == \A j \in 0 .. i - 1 : Continues(j)

Unique ==
  \A i, j \in 1..Len(options_) : i # j => options_[i].name # options_[j].name

Ascending(opts) ==
  \A i, j \in 1..Len(opts) : i < j => opts[i].name <= opts[j].name

StrictlyAscending(opts) ==
  \A i, j \in 1..Len(opts) : i < j => opts[i].name < opts[j].name

\* p points to the entry named c if there is one and is null otherwise
FindCorrect(p, c) ==
  IF Registered(c) THEN p \in 1..Len(options_) /\ options_[p].name = c
  ELSE p = 0

\* the arguments cut after their second character
Truncated(argv) ==
  [i \in 1..Len(argv) |->
     IF Len(argv[i]) > 2 THEN SubSeq(argv[i], 1, 2) ELSE argv[i]]

\* "invalid option '-c'"
Message(c) ==
  <<105, 110, 118, 97, 108, 105, 100, 32, 111, 112, 116, 105, 111, 110, 32,
    39, 45, c, 39>>

\* a backslash, 'x' and the two lowercase hexadecimal digits of the byte c
HexEscape(c) ==
  LET byte == c % 256
      digit(d) == IF d < 10 THEN 48 + d ELSE 97 + (d - 10)
  IN <<92, 120, digit(byte \div 16), digit(byte % 16)>>

----------------------------------------------------------------------------
(* Properties *)

\* C1: when the scan reaches an argument at offset i that begins with '-'
\* and names a registered flag whose handler returns false, ParseOptions
\* returns offset i + 1.
C1_StopReturnsNext ==
  Parsed =>
    \A i \in Offsets :
      Reaches(i) /\ BeginsWithDash(i) /\ Returns(Flag(i), FALSE)
        => ~ret.threw /\ ret.index = i + 1

\* C2: when the scan reaches an argument that begins with '-' and whose
\* second character c is no registered name (the list may be empty),
\* ParseOptions throws OptionError, and for printable c the message is
\* exactly "invalid option '-c'".
C2_InvalidOption ==
  Parsed =>
    \A i \in Offsets :
      Reaches(i) /\ BeginsWithDash(i) /\ ~Registered(Flag(i))
        => /\ ret.threw
           /\ Printable(Flag(i)) => ret.what = Message(Flag(i))

C2_Witness ==
  /\ Parsed /\ ret.threw
  /\ Len(ret.calls) = 1
  /\ Printable(Flag(1))
  /\ ret.what = Message(Flag(1))

\* C3: MakePrintable renders every non-printable byte c as a backslash, 'x'
\* and exactly two lowercase hexadecimal digits of c's value, and every
\* printable byte as itself.
C3_HexEscape ==
  ret.op = "MakePrintable" =>
    ret.text = IF Printable(ret.c) THEN <<ret.c>> ELSE HexEscape(ret.c)

\* C4: ParseOptions stops at the first argument that does not begin with
\* '-' (the empty string included): it returns the offset of that argument
\* and invokes no handler for it or for any argument after it.
C4_StopsAtFirstNonOption ==
  Parsed =>
    \A i \in Offsets :
      Reaches(i) /\ ~BeginsWithDash(i)
        => ~ret.threw /\ ret.index = i /\ ret.calls = Upto(i)

C4_Witness ==
  /\ Parsed /\ ~ret.threw
  /\ Len(args) = 3
  /\ Continues(0) /\ ~BeginsWithDash(1) /\ Continues(2)
  /\ ret.index = 1

\* C5: with unique flag characters, after Sort() the sequence is strictly
\* ascending by flag character, Find(c) returns the entry named c for every
\* inserted c and the null result for every c that was not inserted.
C5_SortThenFind ==
  Unique =>
    /\ ret.op = "Sort" =>
         /\ StrictlyAscending(options_)
         /\ \A c \in Names : FindCorrect(Find(options_, c), c)
    /\ ret.op = "Find" /\ ret.after_sort => FindCorrect(ret.opt, ret.name)

C5_Witness ==
  /\ ret.op = "Sort" /\ Unique
  /\ Len(options_) = 3
  /\ ~Ascending(ret.before)
  /\ \E c \in Names : ~Registered(c) /\ Find(options_, c) = 0

\* C6: when ParseOptions throws, the handlers of the arguments before the
\* offending one, all of them registered flags, have each been invoked
\* once, in argument order, the offending argument begins with '-' and
\* names no registered flag, and no argument after it is examined and no
\* handler is invoked for it or any later argument.
C6_ErrorAbortsScan ==
  Parsed /\ ret.threw =>
    LET k == Len(ret.calls)
    IN /\ k < Len(args)
       /\ ret.calls = Upto(k)
       /\ \A j \in 0 .. k - 1 : BeginsWithDash(j) /\ Registered(Flag(j))
       /\ BeginsWithDash(k) /\ ~Registered(Flag(k))
       /\ ret.examined = Upto(k + 1)

C6_Witness ==
  /\ Parsed /\ ret.threw
  /\ Len(args) = 3
  /\ ret.calls = <<0>>
  /\ BeginsWithDash(2) /\ Registered(Flag(2))

\* C7: when every argument begins with '-', names a registered flag and its
\* handler returns true, ParseOptions returns the offset of the null
\* terminator, having invoked the handler of each argument once in
\* argument order.
C7_AllConsumed ==
  Parsed /\ (\A i \in Offsets : Continues(i)) =>
    ~ret.threw /\ ret.index = Len(args) /\ ret.calls = Upto(Len(args))

C7_Witness ==
  /\ Parsed
  /\ Len(args) = 3
  /\ \A i \in Offsets : Continues(i)
  /\ Flag(0) # Flag(1)
  /\ ret.index = 3

\* C8: a Sort() called right after a Sort() leaves the option sequence and
\* the sorted flag as the first call left them.
C8_SortIdempotent ==
  ret.op = "Sort" /\ ret.repeated =>
    options_ = ret.before /\ sorted_ = ret.was_sorted

C8_Witness ==
  /\ ret.op = "Sort" /\ ret.repeated
  /\ Len(options_) = 3
  /\ \E i, j \in 1..3 : i # j /\ options_[i].name = options_[j].name
                          /\ options_[i].handler # options_[j].handler

\* C9: the flag looked up for an argument that begins with '-' is its
\* second character (NUL for the bare "-"), and the outcome of ParseOptions
\* is the outcome for the arguments cut after their second character.
C9_SecondCharacterOnly ==
  Parsed =>
    /\ Len(ret.looked) <= Len(args)
    /\ \A k \in 1..Len(ret.looked) : ret.looked[k] = Flag(k - 1)
    /\ [list |-> [options_ |-> options_, sorted_ |-> sorted_], ret |-> ret]
         \in ParseOutcomes(Truncated(args), options_, sorted_)

C9_Witness ==
  /\ Parsed
  /\ ret.calls = <<0, 1>>
  /\ Len(args[1]) = 3 /\ args[1][3] # args[1][2]
  /\ Len(args[2]) = 1

\* C10: whatever insertions, sorts, lookups and parses came before, the
\* sequence is in ascending order of the flag characters when Sort()
\* returns, also from the call ParseOptions makes; a Sort() that finds the
\* flag set finds the sequence in order.
C10_SortedAfterSort ==
  /\ ret.op \in {"Sort", "ParseOptions"} => Ascending(options_)
  /\ ret.op = "Sort" /\ ret.was_sorted => Ascending(ret.before)

C10_Witness ==
  /\ ret.op = "Sort" /\ ret.redone
  /\ ~ret.was_sorted
  /\ ~Ascending(ret.before)
  /\ Ascending(options_)

====
